---- MODULE Spec2Model ----
(***************************************************************************)
(* Teach_Evaluations: the response-normalisation pipeline of the web       *)
(* front-end (src/app.py, evaluate_lesson) and of the console front-end    *)
(* (src/teach_eval.py, main).                                              *)
(*                                                                         *)
(* Texts are sequences of tokens.  A token is one character class ("{",    *)
(* "}", ",", a whitespace character, a character of prose) or one run of   *)
(* well-formed JSON members ("key": value, ...), which carries the mapping *)
(* its members spell.  JSON values are tagged records so that values of    *)
(* different JSON types can be compared.                                   *)
(***************************************************************************)
EXTENDS Integers, Sequences, FiniteSets, TLC

\* ---------------------------------------------------------------- bounds
MaxLen == 4
MaxKeys == 2

\* ----------------------------------------------------------- JSON values
JNull == [t |-> "null", i |-> 0, s |-> "", l |-> <<>>]
JInt(n) == [t |-> "int", i |-> n, s |-> "", l |-> <<>>]
JStr(x) == [t |-> "str", i |-> 0, s |-> x, l |-> <<>>]
JList(q) == [t |-> "list", i |-> 0, s |-> "", l |-> q]

\* Python truth value of a decoded JSON value: None, 0, "" and [] are falsy.
Falsy(v) ==
  \/ v.t = "null"
  \/ v.t = "int" /\ v.i = 0
  \/ v.t = "str" /\ v.s = ""
  \/ v.t = "list" /\ v.l = <<>>

\* Python's  a or b
Or(a, b) == IF Falsy(a) THEN b ELSE a

EmptyDict == [k \in {} |-> JNull]

\* dict.get(key): None when the key is absent
get(d, key) == IF key \in DOMAIN d THEN d[key] ELSE JNull

\* dict.get(key, default)
get_default(d, key, default) == IF key \in DOMAIN d THEN d[key] ELSE default

\* ---------------------------------------------------------------- schema
IntFields == {"numerical_grade", "score_content", "score_organization", "score_mechanics"}
StrFields == {"topic", "letter_grade", "calculation"}
ListFields == {"strengths", "weaknesses", "improvement_suggestions", "mechanics_issues"}
SchemaKeys == IntFields \cup StrFields \cup ListFields

\* the alias key adapt_feedback reads for a field, "" when it reads none
Alias(k) ==
  CASE k = "numerical_grade" -> "overall_score"
    [] k = "score_content" -> "content_score"
    [] k = "score_organization" -> "organization_score"
    [] k = "score_mechanics" -> "mechanics_score"
    [] k = "calculation" -> "score_breakdown"
    [] OTHER -> ""

AliasedFields == {k \in SchemaKeys : Alias(k) # ""}
AliasKeys == {Alias(k) : k \in AliasedFields}
AllKeys == SchemaKeys \cup AliasKeys

\* the literal defaults of adapt_feedback
Default(k) ==
  CASE k = "topic" -> JStr("Unknown Topic")
    [] k = "letter_grade" -> JStr("N/A")
    [] k = "calculation" -> JStr("")
    [] k \in IntFields -> JInt(0)
    [] OTHER -> JList(<<>>)

\* ----------------------------------------------------------------- adapter
\* variants of adapt_feedback that a slip in the lookup would produce
adapt_feedback_presence(raw_dict) ==
  [k \in SchemaKeys |->
     IF k \in DOMAIN raw_dict THEN raw_dict[k]
     ELSE IF Alias(k) # "" /\ Alias(k) \in DOMAIN raw_dict THEN raw_dict[Alias(k)]
     ELSE Default(k)]

adapt_feedback_noalias(raw_dict) ==
  [k \in SchemaKeys |->
     IF Alias(k) # "" THEN Or(get(raw_dict, k), Default(k))
     ELSE get_default(raw_dict, k, Default(k))]

adapt_feedback_nonedefault(raw_dict) ==
  [k \in SchemaKeys |->
     IF Alias(k) # "" THEN Or(get(raw_dict, k), get(raw_dict, Alias(k)))
     ELSE get_default(raw_dict, k, Default(k))]

adapt_feedback_notopic(raw_dict) ==
  [k \in SchemaKeys |->
     IF k = "topic" THEN get_default(raw_dict, "topic", JStr(""))
     ELSE IF Alias(k) # "" THEN Or(get(raw_dict, k), get_default(raw_dict, Alias(k), Default(k)))
     ELSE get_default(raw_dict, k, Default(k))]

adapt_feedback(raw_dict) ==
  [ topic |-> get_default(raw_dict, "topic", JStr("Unknown Topic")),
    numerical_grade |-> Or(get(raw_dict, "numerical_grade"), get_default(raw_dict, "overall_score", JInt(0))),
    letter_grade |-> get_default(raw_dict, "letter_grade", JStr("N/A")),
    score_content |-> Or(get(raw_dict, "score_content"), get_default(raw_dict, "content_score", JInt(0))),
    score_organization |-> Or(get(raw_dict, "score_organization"), get_default(raw_dict, "organization_score", JInt(0))),
    score_mechanics |-> Or(get(raw_dict, "score_mechanics"), get_default(raw_dict, "mechanics_score", JInt(0))),
    calculation |-> Or(get(raw_dict, "calculation"), get_default(raw_dict, "score_breakdown", JStr(""))),
    strengths |-> get_default(raw_dict, "strengths", JList(<<>>)),
    weaknesses |-> get_default(raw_dict, "weaknesses", JList(<<>>)),
    improvement_suggestions |-> get_default(raw_dict, "improvement_suggestions", JList(<<>>)),
    mechanics_issues |-> get_default(raw_dict, "mechanics_issues", JList(<<>>)) ]

\* ------------------------------------------------------ schema validation
\* Strings that the int fields accept, with the integer they are read as.
NumericStrings == {"7"}
ParseInt(x) == CASE x = "7" -> 7 [] OTHER -> 0

\* can a value be coerced to the declared type of field k
CanCoerce(k, v) ==
  CASE k \in IntFields -> v.t = "int" \/ (v.t = "str" /\ v.s \in NumericStrings)
    [] k \in StrFields -> v.t = "str"
    [] OTHER -> v.t = "list"

\* the value the field holds after validation
Coerce(k, v) ==
  IF k \in IntFields /\ v.t = "str" THEN JInt(ParseInt(v.s)) ELSE v

\* LessonFeedback(**d): every field required, each coerced to its type.
LessonFeedback(d) ==
  LET ok == /\ SchemaKeys \subseteq DOMAIN d
            /\ \A k \in SchemaKeys : CanCoerce(k, d[k])
  IN [ok |-> ok,
      value |-> IF ok THEN [k \in SchemaKeys |-> Coerce(k, d[k])] ELSE EmptyDict]

\* ------------------------------------------------------------------ texts
Ch(c) == [ch |-> c, d |-> EmptyDict]
Mem(d) == [ch |-> "m", d |-> d]
LB == Ch("{")
RB == Ch("}")
COMMA == Ch(",")
WS == Ch(" ")
X == Ch("x")

Min(S) == CHOOSE x \in S : \A y \in S : x <= y
Max(S) == CHOOSE x \in S : \A y \in S : x >= y

RECURSIVE lstrip(_)
lstrip(text) ==
  IF text = <<>> THEN text
  ELSE IF Head(text) = WS THEN lstrip(Tail(text)) ELSE text

RECURSIVE rstrip(_)
rstrip(text) ==
  IF text = <<>> THEN text
  ELSE IF text[Len(text)] = WS THEN rstrip(SubSeq(text, 1, Len(text) - 1)) ELSE text

\* str.strip()
strip(text) == rstrip(lstrip(text))

\* the entry test of both front-ends:  not explanation.strip()
blank_nostrip(text) == text = <<>>

blank(text) == strip(text) = <<>>

\* ------------------------------------------------------------- extractor
\* re.search(r"\{.*?\}") : the shortest span instead of the longest
extract_json_nongreedy(text) ==
  LET t == strip(text)
      starts == {i \in 1..Len(t) : t[i] = LB /\ \E j \in (i+1)..Len(t) : t[j] = RB}
  IN IF starts = {} THEN <<LB, RB>>
     ELSE LET i == Min(starts)
              j == Min({n \in (i+1)..Len(t) : t[n] = RB})
          IN SubSeq(t, i, j)

\* re.search(r"\{.*\}", text, re.DOTALL): the leftmost "{" from which a match
\* exists, extended to the last "}" after it; "{}" when there is no match.
extract_json(text) ==
  LET t == strip(text)
      starts == {i \in 1..Len(t) : t[i] = LB /\ \E j \in (i+1)..Len(t) : t[j] = RB}
  IN IF starts = {} THEN <<LB, RB>>
     ELSE LET i == Min(starts)
              j == Max({n \in (i+1)..Len(t) : t[n] = RB})
          IN SubSeq(t, i, j)

\* ---------------------------------------------------------------- decoder
\* One pass of the JSON object grammar over the tokens:
\*   ws* "{" ws* [ members ws* ("," ws* members ws*)* ] "}" ws*
\* A later member replaces an earlier one with the same key.
RECURSIVE json_scan(_, _, _, _)
json_scan(text, n, st, acc) ==
  IF n > Len(text) THEN [ok |-> st = "end", value |-> IF st = "end" THEN acc ELSE EmptyDict]
  ELSE LET c == text[n] IN
    IF c = WS THEN json_scan(text, n + 1, st, acc)
    ELSE IF c = LB /\ st = "start" THEN json_scan(text, n + 1, "first", acc)
    ELSE IF c.ch = "m" /\ st \in {"first", "comma"} THEN json_scan(text, n + 1, "member", c.d @@ acc)
    ELSE IF c = COMMA /\ st = "member" THEN json_scan(text, n + 1, "comma", acc)
    ELSE IF c = RB /\ st \in {"first", "member"} THEN json_scan(text, n + 1, "end", acc)
    ELSE [ok |-> FALSE, value |-> EmptyDict]

\* json.loads(text): ok = FALSE stands for json.JSONDecodeError.  Texts that
\* exhaust an interpreter limit (nesting beyond the recursion limit, an
\* integer literal longer than the digit limit) are not among the tokens.
json_loads(text) == json_scan(text, 1, "start", EmptyDict)

\* ------------------------------------------------- console output parser
\* Number of "{" still open at the end of the text, -1 when a "}" closes
\* nothing.
RECURSIVE open_braces(_, _, _)
open_braces(text, n, depth) ==
  IF n > Len(text) THEN depth
  ELSE IF text[n] = LB THEN open_braces(text, n + 1, depth + 1)
  ELSE IF text[n] = RB THEN (IF depth = 0 THEN -1 ELSE open_braces(text, n + 1, depth - 1))
  ELSE open_braces(text, n + 1, depth)

closers(depth) == [n \in 1..depth |-> RB]

\* The parser behind PydanticOutputParser.parse: the text is decoded as it
\* stands; failing that, the open braces are closed and trailing tokens are
\* dropped one at a time until the text decodes.  A result that is not an
\* object fails validation and is counted with the failures.
parse_partial_json(text) ==
  LET strict == json_loads(text)
      depth == open_braces(text, 1, 0)
      fits == {n \in 1..Len(text) : json_loads(SubSeq(text, 1, n) \o closers(depth)).ok}
  IN IF strict.ok THEN strict
     ELSE IF depth < 0 \/ fits = {} THEN [ok |-> FALSE, value |-> EmptyDict]
     ELSE json_loads(SubSeq(text, 1, Max(fits)) \o closers(depth))

\* parser.parse(text): decode, then validate against LessonFeedback; no
\* aliases and no defaults are applied.
parser_parse(text) ==
  LET decoded == parse_partial_json(strip(text))
  IN IF decoded.ok THEN LessonFeedback(decoded.value)
     ELSE [ok |-> FALSE, value |-> EmptyDict]

\* display_feedback(raw_response): every exception is caught and printed.
display_feedback(text) ==
  LET parsed == parser_parse(text)
  IN [result |-> IF parsed.ok THEN "feedback" ELSE "error", feedback |-> parsed.value]

\* ------------------------------------------------------------------ state
VARIABLES frontend, pc, topic, explanation, raw_text, json_text, raw_dict,
          adapted_dict, feedback, result, error, llm_calls, steps

vars == <<frontend, pc, topic, explanation, raw_text, json_text, raw_dict,
          adapted_dict, feedback, result, error, llm_calls, steps>>

\* ----------------------------------------------------------------- inputs
Topics == {"Bio", "Math"}
Explanations == {<<>>, <<WS>>, <<WS, X>>}

\* a complete, well-typed reply, as the prompt asks for
FullDict ==
  [ topic |-> JStr("Bio"), numerical_grade |-> JInt(85), letter_grade |-> JStr("B"),
    score_content |-> JInt(86), score_organization |-> JInt(78), score_mechanics |-> JInt(92),
    calculation |-> JStr("0.8*86 + 0.15*78 + 0.05*92 = 85"),
    strengths |-> JList(<<"s">>), weaknesses |-> JList(<<>>),
    improvement_suggestions |-> JList(<<"s">>), mechanics_issues |-> JList(<<>>) ]

\* the member runs a gateway text is built from
TextDicts ==
  { FullDict,
    [overall_score |-> JInt(77)],
    [numerical_grade |-> JStr("abc")] }

Alphabet == {LB, RB, COMMA, WS, X} \cup {Mem(d) : d \in TextDicts}
Texts == UNION {[1..n -> Alphabet] : n \in 0..MaxLen}

\* the values and mappings the adapter is exercised on
Values ==
  { JNull, JInt(0), JInt(50), JInt(77), JStr(""), JStr("abc"), JStr("7"),
    JList(<<>>), JList(<<"s">>) }
Dicts == UNION {[S -> Values] : S \in {T \in SUBSET AllKeys : Cardinality(T) <= MaxKeys}}

\* ------------------------------------------------------------------- Init
Init ==
  /\ frontend = "web"
  /\ pc = "idle"
  /\ topic = "Bio"
  /\ explanation = <<>>
  /\ raw_text = <<>>
  /\ json_text = <<>>
  /\ raw_dict = EmptyDict
  /\ adapted_dict = EmptyDict
  /\ feedback = EmptyDict
  /\ result = "none"
  /\ error = ""
  /\ llm_calls = 0
  /\ steps = <<>>

\* a new request starts from a clean slate: nothing is kept between requests
Fresh(fe, tp, ex) ==
  /\ frontend' = fe
  /\ topic' = tp
  /\ explanation' = ex
  /\ raw_text' = <<>>
  /\ json_text' = <<>>
  /\ raw_dict' = EmptyDict
  /\ adapted_dict' = EmptyDict
  /\ feedback' = EmptyDict
  /\ llm_calls' = 0
  /\ steps' = <<>>

\* ----------------------------------------------------- web: evaluate_lesson
\* entry test on the raw explanation
WebRequest_nostrip ==
  /\ pc \in {"idle", "done"}
  /\ \E tp \in Topics, ex \in Explanations :
       /\ Fresh("web", tp, ex)
       /\ IF blank_nostrip(ex)
          THEN pc' = "done" /\ result' = "error" /\ error' = "Explanation cannot be empty."
          ELSE pc' = "invoke" /\ result' = "none" /\ error' = ""

WebRequest ==
  /\ pc \in {"idle", "done"}
  /\ \E tp \in Topics, ex \in Explanations :
       /\ Fresh("web", tp, ex)
       /\ IF blank(ex)
          THEN pc' = "done" /\ result' = "error" /\ error' = "Explanation cannot be empty."
          ELSE pc' = "invoke" /\ result' = "none" /\ error' = ""

\* llm.invoke returns a text
WebInvoke ==
  /\ frontend = "web" /\ pc = "invoke"
  /\ \E text \in Texts : raw_text' = text
  /\ llm_calls' = llm_calls + 1
  /\ steps' = Append(steps, "invoke")
  /\ pc' = "check"
  /\ UNCHANGED <<frontend, topic, explanation, json_text, raw_dict, adapted_dict, feedback, result, error>>

\* llm.invoke raises: the exception leaves the handler
WebInvokeRaises ==
  /\ frontend = "web" /\ pc = "invoke"
  /\ llm_calls' = llm_calls + 1
  /\ steps' = Append(steps, "invoke")
  /\ pc' = "done"
  /\ result' = "exception"
  /\ error' = "GatewayError"
  /\ UNCHANGED <<frontend, topic, explanation, raw_text, json_text, raw_dict, adapted_dict, feedback>>

\* a blank reply is sent back to the gateway
WebCheckResponse_retry ==
  /\ frontend = "web" /\ pc = "check"
  /\ IF raw_text = <<>> \/ blank(raw_text)
     THEN IF llm_calls < 2
          THEN pc' = "invoke" /\ UNCHANGED <<result, error>>
          ELSE pc' = "done" /\ result' = "error" /\ error' = "Empty response from LLM."
     ELSE pc' = "extract" /\ UNCHANGED <<result, error>>
  /\ UNCHANGED <<frontend, topic, explanation, raw_text, json_text, raw_dict, adapted_dict, feedback, llm_calls, steps>>

\* only the empty reply is turned away
WebCheckResponse_nostrip ==
  /\ frontend = "web" /\ pc = "check"
  /\ IF raw_text = <<>>
     THEN pc' = "done" /\ result' = "error" /\ error' = "Empty response from LLM."
     ELSE pc' = "extract" /\ UNCHANGED <<result, error>>
  /\ UNCHANGED <<frontend, topic, explanation, raw_text, json_text, raw_dict, adapted_dict, feedback, llm_calls, steps>>

\* if not raw_text or not raw_text.strip()
WebCheckResponse ==
  /\ frontend = "web" /\ pc = "check"
  /\ IF raw_text = <<>> \/ blank(raw_text)
     THEN pc' = "done" /\ result' = "error" /\ error' = "Empty response from LLM."
     ELSE pc' = "extract" /\ UNCHANGED <<result, error>>
  /\ UNCHANGED <<frontend, topic, explanation, raw_text, json_text, raw_dict, adapted_dict, feedback, llm_calls, steps>>

\* json_text = extract_json(raw_text)
WebExtract ==
  /\ frontend = "web" /\ pc = "extract"
  /\ json_text' = extract_json(raw_text)
  /\ steps' = Append(steps, "extract")
  /\ pc' = "decode"
  /\ UNCHANGED <<frontend, topic, explanation, raw_text, raw_dict, adapted_dict, feedback, result, error, llm_calls>>

\* the decode error is not caught
WebDecode_raise ==
  /\ frontend = "web" /\ pc = "decode"
  /\ steps' = Append(steps, "decode")
  /\ IF json_loads(json_text).ok
     THEN raw_dict' = json_loads(json_text).value /\ pc' = "adapt" /\ UNCHANGED <<result, error>>
     ELSE raw_dict' = EmptyDict /\ pc' = "done" /\ result' = "exception" /\ error' = "JSONDecodeError"
  /\ UNCHANGED <<frontend, topic, explanation, raw_text, json_text, adapted_dict, feedback, llm_calls>>

\* try: raw_dict = json.loads(json_text)  except JSONDecodeError: raw_dict = {}
WebDecode ==
  /\ frontend = "web" /\ pc = "decode"
  /\ steps' = Append(steps, "decode")
  /\ raw_dict' = IF json_loads(json_text).ok THEN json_loads(json_text).value ELSE EmptyDict
  /\ pc' = "adapt"
  /\ UNCHANGED <<frontend, topic, explanation, raw_text, json_text, adapted_dict, feedback, result, error, llm_calls>>

\* adapted_dict = adapt_feedback(raw_dict)
WebAdapt ==
  /\ frontend = "web" /\ pc = "adapt"
  /\ adapted_dict' = adapt_feedback(raw_dict)
  /\ steps' = Append(steps, "adapt")
  /\ pc' = "assemble"
  /\ UNCHANGED <<frontend, topic, explanation, raw_text, json_text, raw_dict, feedback, result, error, llm_calls>>

\* feedback = LessonFeedback(**adapted_dict), rendered; a validation error
\* leaves the handler
WebAssemble ==
  /\ frontend = "web" /\ pc = "assemble"
  /\ steps' = Append(steps, "assemble")
  /\ feedback' = LessonFeedback(adapted_dict).value
  /\ result' = IF LessonFeedback(adapted_dict).ok THEN "feedback" ELSE "exception"
  /\ error' = IF LessonFeedback(adapted_dict).ok THEN "" ELSE "ValidationError"
  /\ pc' = "done"
  /\ UNCHANGED <<frontend, topic, explanation, raw_text, json_text, raw_dict, adapted_dict, llm_calls>>

\* ------------------------------------------------------------ console: main
ConsoleMain ==
  /\ pc \in {"idle", "done"}
  /\ \E tp \in Topics, ex \in Explanations :
       /\ Fresh("console", tp, ex)
       /\ IF blank(ex)
          THEN pc' = "done" /\ result' = "error" /\ error' = "No explanation provided. Exiting."
          ELSE pc' = "invoke" /\ result' = "none" /\ error' = ""

\* grade_explanation: llm.invoke returns a text
ConsoleGrade ==
  /\ frontend = "console" /\ pc = "invoke"
  /\ \E text \in Texts : raw_text' = text
  /\ llm_calls' = llm_calls + 1
  /\ steps' = Append(steps, "invoke")
  /\ pc' = "display"
  /\ UNCHANGED <<frontend, topic, explanation, json_text, raw_dict, adapted_dict, feedback, result, error>>

\* grade_explanation: llm.invoke raises, outside display_feedback's try
ConsoleGradeRaises ==
  /\ frontend = "console" /\ pc = "invoke"
  /\ llm_calls' = llm_calls + 1
  /\ steps' = Append(steps, "invoke")
  /\ pc' = "done"
  /\ result' = "exception"
  /\ error' = "GatewayError"
  /\ UNCHANGED <<frontend, topic, explanation, raw_text, json_text, raw_dict, adapted_dict, feedback>>

\* display_feedback(raw)
ConsoleDisplay ==
  /\ frontend = "console" /\ pc = "display"
  /\ steps' = Append(steps, "parse")
  /\ feedback' = display_feedback(raw_text).feedback
  /\ result' = display_feedback(raw_text).result
  /\ error' = IF display_feedback(raw_text).result = "error" THEN "Error parsing response:" ELSE ""
  /\ pc' = "done"
  /\ UNCHANGED <<frontend, topic, explanation, raw_text, json_text, raw_dict, adapted_dict, llm_calls>>

\* ------------------------------------------------------------------- Next
Next ==
  \/ WebRequest
  \/ WebInvoke
  \/ WebInvokeRaises
  \/ WebCheckResponse
  \/ WebExtract
  \/ WebDecode
  \/ WebAdapt
  \/ WebAssemble
  \/ ConsoleMain
  \/ ConsoleGrade
  \/ ConsoleGradeRaises
  \/ ConsoleDisplay

Spec == Init /\ [][Next]_vars

\* ------------------------------------------------ the adapter on its own
\* The handler just after the decode step, for every decoded mapping of at
\* most MaxKeys keys: the reply was the object that spells the mapping.
InitAdapt ==
  /\ frontend = "web"
  /\ pc = "adapt"
  /\ topic = "Bio"
  /\ explanation = <<WS, X>>
  /\ \E d \in Dicts :
       /\ raw_dict = d
       /\ raw_text = IF d = EmptyDict THEN <<LB, RB>> ELSE <<LB, Mem(d), RB>>
       /\ json_text = IF d = EmptyDict THEN <<LB, RB>> ELSE <<LB, Mem(d), RB>>
  /\ adapted_dict = EmptyDict
  /\ feedback = EmptyDict
  /\ result = "none"
  /\ error = ""
  /\ llm_calls = 1
  /\ steps = <<"invoke", "extract", "decode">>

NextAdapt ==
  \/ WebAdapt
  \/ WebAssemble

SpecAdapt == InitAdapt /\ [][NextAdapt]_vars

\* ----------------------------------------------------------------- claims
Range(q) == {q[n] : n \in 1..Len(q)}
OnlyWhitespace(text) == \A n \in 1..Len(text) : text[n] = WS
Opens(text) == {n \in 1..Len(text) : text[n] = LB}
Closes(text) == {n \in 1..Len(text) : text[n] = RB}
FirstOpen(text) == IF Opens(text) = {} THEN 0 ELSE Min(Opens(text))
LastClose(text) == IF Closes(text) = {} THEN 0 ELSE Max(Closes(text))
NoBraceSpan(text) == ~ \E m \in Opens(text), n \in Closes(text) : m < n

\* the web handler has finished a request whose gateway call returned a text
WebReplied == frontend = "web" /\ pc = "done" /\ llm_calls >= 1 /\ error # "GatewayError"

DefaultFeedback ==
  [ topic |-> JStr("Unknown Topic"), numerical_grade |-> JInt(0), letter_grade |-> JStr("N/A"),
    score_content |-> JInt(0), score_organization |-> JInt(0), score_mechanics |-> JInt(0),
    calculation |-> JStr(""), strengths |-> JList(<<>>), weaknesses |-> JList(<<>>),
    improvement_suggestions |-> JList(<<>>), mechanics_issues |-> JList(<<>>) ]

\* C1: in both front-ends an explanation that is empty or only whitespace
\* ends the run with a message to the user; the gateway is never called in
\* that run, no later step runs and no feedback object is produced.
C1_BlankExplanationNoCall ==
  OnlyWhitespace(explanation) =>
    /\ llm_calls = 0
    /\ steps = <<>>
    /\ feedback = EmptyDict
    /\ pc \in {"idle", "done"}
    /\ pc = "done" =>
         /\ result = "error"
         /\ error = IF frontend = "web" THEN "Explanation cannot be empty."
                    ELSE "No explanation provided. Exiting."

C1_Witness ==
  /\ pc = "done" /\ frontend = "web" /\ explanation = <<WS>>
  /\ result = "error" /\ llm_calls = 0

C3_PresenceOrder ==
  (frontend = "web" /\ pc \in {"assemble", "done"}) =>
    \A k \in SchemaKeys :
      /\ k \in DOMAIN adapted_dict
      /\ adapted_dict[k] =
           IF k \in DOMAIN raw_dict THEN raw_dict[k]
           ELSE IF k \in AliasedFields /\ Alias(k) \in DOMAIN raw_dict THEN raw_dict[Alias(k)]
           ELSE Default(k)

\* C3 amended: a field without alias is the value under its key when present,
\* else its default; an aliased field is the value under its key when that
\* key is present with a truthy value, else the value under the alias key
\* when present, else the default.  overall_score = 77 without
\* numerical_grade gives numerical_grade = 77.
C3_TruthyOrder ==
  (frontend = "web" /\ pc \in {"assemble", "done"}) =>
    /\ \A k \in SchemaKeys :
         /\ k \in DOMAIN adapted_dict
         /\ adapted_dict[k] =
              IF k \in AliasedFields
              THEN IF k \in DOMAIN raw_dict /\ ~ Falsy(raw_dict[k]) THEN raw_dict[k]
                   ELSE IF Alias(k) \in DOMAIN raw_dict THEN raw_dict[Alias(k)]
                   ELSE Default(k)
              ELSE IF k \in DOMAIN raw_dict THEN raw_dict[k] ELSE Default(k)
    /\ ("overall_score" \in DOMAIN raw_dict /\ "numerical_grade" \notin DOMAIN raw_dict
        /\ raw_dict["overall_score"] = JInt(77))
       => adapted_dict["numerical_grade"] = JInt(77)

C3_Witness ==
  /\ pc = "assemble"
  /\ raw_dict = [overall_score |-> JInt(77)]
  /\ adapted_dict["numerical_grade"] = JInt(77)

\* C4 as stated: the result is the part of the trimmed text from its first
\* "{" to its last "}", and "{}" when the text has no "{".
C4_FirstToLast ==
  (frontend = "web" /\ "extract" \in Range(steps)) =>
    LET t == strip(raw_text) IN
      IF Opens(t) = {} THEN json_text = <<LB, RB>>
      ELSE json_text = SubSeq(t, FirstOpen(t), LastClose(t))

\* C4 amended: when a "}" follows the first "{" the result is the part of
\* the trimmed text from that "{" to the last "}"; when the text has no "{",
\* or no "}" after its first "{", the result is "{}".  Every result begins
\* with "{" and ends with "}".
C4_SpanOrEmptyObject ==
  (frontend = "web" /\ "extract" \in Range(steps)) =>
    LET t == strip(raw_text) IN
      /\ IF Opens(t) # {} /\ FirstOpen(t) < LastClose(t)
         THEN json_text = SubSeq(t, FirstOpen(t), LastClose(t))
         ELSE json_text = <<LB, RB>>
      /\ Len(json_text) >= 2
      /\ json_text[1] = LB
      /\ json_text[Len(json_text)] = RB

C4_Witness ==
  /\ frontend = "web" /\ "extract" \in Range(steps)
  /\ raw_text = <<X, LB, X>>
  /\ json_text = <<LB, RB>>

C6_BlankReplyStops ==
  (frontend = "web" /\ "invoke" \in Range(steps) /\ error # "GatewayError"
   /\ pc # "invoke" /\ OnlyWhitespace(raw_text)) =>
    /\ steps = <<"invoke">>
    /\ json_text = <<>> /\ raw_dict = EmptyDict /\ adapted_dict = EmptyDict
    /\ feedback = EmptyDict
    /\ pc \in {"check", "done"}
    /\ pc = "done" => (result = "error" /\ error = "Empty response from LLM.")

C6_Witness ==
  /\ frontend = "web" /\ pc = "done" /\ raw_text = <<WS>>
  /\ ~ OnlyWhitespace(explanation)
  /\ error = "Empty response from LLM."

\* C7: on the same gateway reply the web and the console front-end either
\* produce feedback objects with the same field values or both fail.
C7_FrontEndsAgree ==
  WebReplied =>
    LET console == display_feedback(raw_text) IN
      \/ result = "feedback" /\ console.result = "feedback" /\ feedback = console.feedback
      \/ result # "feedback" /\ console.result # "feedback"

\* C8 as stated: the topic of every feedback object is the submitted topic
\* or "Unknown Topic".
C8_TopicEchoesRequest ==
  (pc = "done" /\ result = "feedback") =>
    feedback["topic"] \in {JStr(topic), JStr("Unknown Topic")}

\* C8 amended: the topic of every feedback object of the web pipeline is the
\* string under the "topic" key of the mapping decoded from the gateway
\* reply, or "Unknown Topic" when that mapping has no such key.
C8_TopicFromReply ==
  (frontend = "web" /\ pc = "done" /\ result = "feedback") =>
    /\ feedback["topic"].t = "str"
    /\ feedback["topic"] =
         IF "topic" \in DOMAIN raw_dict THEN raw_dict["topic"] ELSE JStr("Unknown Topic")

C8_Witness ==
  /\ frontend = "web" /\ pc = "done" /\ result = "feedback"
  /\ topic = "Math"
  /\ feedback["topic"] = JStr("Bio")

\* C9: a request whose explanation passes the entry test issues exactly one
\* gateway call, before every other step; no later outcome causes a second.
C9_SingleGatewayCall ==
  /\ llm_calls <= 1
  /\ \A n \in 1..Len(steps) : (steps[n] = "invoke") <=> (n = 1)
  /\ llm_calls = (IF steps = <<>> THEN 0 ELSE 1)
  /\ (pc = "done" /\ ~ OnlyWhitespace(explanation)) => llm_calls = 1

C9_Witness ==
  /\ frontend = "web" /\ pc = "done"
  /\ result = "exception" /\ error = "ValidationError"
  /\ llm_calls = 1
  /\ steps = <<"invoke", "extract", "decode", "adapt", "assemble">>

\* C10: for each aliased field, a mapping holding a falsy value under the
\* field's own key is adapted exactly as the mapping without that key: the
\* field is the alias value when the alias key is present, else the default.
\* numerical_grade = 0 with overall_score = 50 gives numerical_grade = 50.
C10_FalsyIsMissing ==
  (frontend = "web" /\ pc \in {"assemble", "done"}) =>
    \A k \in AliasedFields :
      (k \in DOMAIN raw_dict /\ Falsy(raw_dict[k])) =>
        /\ adapted_dict = adapt_feedback([j \in DOMAIN raw_dict \ {k} |-> raw_dict[j]])
        /\ k \in DOMAIN adapted_dict
        /\ adapted_dict[k] =
             IF Alias(k) \in DOMAIN raw_dict THEN raw_dict[Alias(k)] ELSE Default(k)

C10_Witness ==
  /\ pc = "assemble"
  /\ raw_dict = [numerical_grade |-> JInt(0), overall_score |-> JInt(50)]
  /\ adapted_dict["numerical_grade"] = JInt(50)

====
